---- MODULE Spec2Model ----
(***************************************************************************)
(* RepoAudit-Lite: source/sink extraction (parser.py), candidate matching  *)
(* and oracle verification (analyzer.py, llm_client.py) and the severity   *)
(* ranked summary (main.py).                                               *)
(*                                                                         *)
(* Spec         one function unit through NPDAnalyzer._analyze_function    *)
(* SpecGateway  LLMClient.analyze_npd_path on each reply of the oracle     *)
(* SpecRank     the severity ranking of main on each list of findings      *)
(* SpecParse    the extraction of CodeParser on each function              *)
(* SpecRun      a run of main over the files of its target                 *)
(***************************************************************************)
EXTENDS Integers, Sequences, FiniteSets, TLC

VARIABLES func, pc, null_assigns, attr_accesses, sink_run, matches, idx,
          calls, reply, llm_result, bugs, sorted_bugs,
          env, target, files, file_idx, file_path, functions, fn_idx,
          file_bugs, main_bugs, exit_code

vars == <<func, pc, null_assigns, attr_accesses, sink_run, matches, idx,
          calls, reply, llm_result, bugs, sorted_bugs,
          env, target, files, file_idx, file_path, functions, fn_idx,
          file_bugs, main_bugs, exit_code>>

\* the state of main and of NPDAnalyzer.analyze_file
run_vars == <<env, target, files, file_idx, file_path, functions, fn_idx,
              file_bugs, main_bugs, exit_code>>

(***************************************************************************)
(* Bounds of the model.                                                    *)
(***************************************************************************)
\* statements in the body of the analysed function
MaxStmts == 3
\* findings in a list handed to the severity ranking
MaxBugs == 3

(***************************************************************************)
(* The syntax tree handed over by tree-sitter: a node has a type tag, its  *)
(* text, the (1-based) line of its start point and its ordered children.   *)
(***************************************************************************)
Node(type, text, line, children) ==
    [type |-> type, text |-> text, line |-> line, children |-> children]

Leaf(type, text, line) == Node(type, text, line, <<>>)

Identifier(name, line) == Leaf("identifier", name, line)

\* v.member
Attribute(base, member, line) ==
    Node("attribute", "", line,
         <<base, Leaf(".", ".", line), Identifier(member, line)>>)

\* left = value
Assignment(left, value, line) ==
    Node("assignment", "", line, <<left, Leaf("=", "=", line), value>>)

NoneLit(line) == Leaf("none", "None", line)

\* f()
Call(fname, line) ==
    Node("call", "", line,
         <<Identifier(fname, line),
           Node("argument_list", "", line,
                <<Leaf("(", "(", line), Leaf(")", ")", line)>>)>>)

ExprStmt(expr, line) == Node("expression_statement", "", line, <<expr>>)

\* v[i]
Subscript(base, index, line) ==
    Node("subscript", "", line,
         <<base, Leaf("[", "[", line), Identifier(index, line),
           Leaf("]", "]", line)>>)

\* def name():  at line `line`, the statements of its block from the next line
FunctionDefinitionAt(name, statements, line) ==
    Node("function_definition", "", line,
         <<Leaf("def", "def", line), Identifier(name, line),
           Node("parameters", "", line,
                <<Leaf("(", "(", line), Leaf(")", ")", line)>>),
           Leaf(":", ":", line),
           Node("block", "", line + 1, statements)>>)

\* The statement shapes a function body is built from.
StmtShapes ==
    {"null_x", "null_y", "use_x", "use_x_twice", "null_use_x",
     "reassign_x", "chain_y", "if_null_x"}

\* lines of source text a statement shape takes
ShapeLines(shape) ==
    IF shape = "if_null_x" THEN 2 ELSE IF shape = "def_g" THEN 3 ELSE 1

\* The statement nodes of one shape written at line `line`.
StmtNodes(shape, line) ==
    CASE shape = "null_x" ->
           \* x = None
           <<ExprStmt(Assignment(Identifier("x", line), NoneLit(line), line), line)>>
      [] shape = "null_y" ->
           \* y = None
           <<ExprStmt(Assignment(Identifier("y", line), NoneLit(line), line), line)>>
      [] shape = "use_x" ->
           \* x.a
           <<ExprStmt(Attribute(Identifier("x", line), "a", line), line)>>
      [] shape = "use_x_twice" ->
           \* x.a + x.b
           <<ExprStmt(Node("binary_operator", "", line,
                           <<Attribute(Identifier("x", line), "a", line),
                             Leaf("+", "+", line),
                             Attribute(Identifier("x", line), "b", line)>>), line)>>
      [] shape = "null_use_x" ->
           \* x = None; x.a
           <<ExprStmt(Assignment(Identifier("x", line), NoneLit(line), line), line),
             ExprStmt(Attribute(Identifier("x", line), "a", line), line)>>
      [] shape = "reassign_x" ->
           \* x = f()
           <<ExprStmt(Assignment(Identifier("x", line), Call("f", line), line), line)>>
      [] shape = "chain_y" ->
           \* y.a.x
           <<ExprStmt(Attribute(Attribute(Identifier("y", line), "a", line),
                                "x", line), line)>>
      [] shape = "if_null_x" ->
           \* if c:
           \*     x = None
           <<Node("if_statement", "", line,
                  <<Leaf("if", "if", line), Identifier("c", line),
                    Leaf(":", ":", line),
                    Node("block", "", line + 1,
                         <<ExprStmt(Assignment(Identifier("x", line + 1),
                                               NoneLit(line + 1), line + 1),
                                    line + 1)>>)>>)>>
      [] shape = "null_x_twice" ->
           \* x = None; x = None
           <<ExprStmt(Assignment(Identifier("x", line), NoneLit(line), line), line),
             ExprStmt(Assignment(Identifier("x", line), NoneLit(line), line), line)>>
      [] shape = "null_attr_x" ->
           \* x.a = None
           <<ExprStmt(Assignment(Attribute(Identifier("x", line), "a", line),
                                 NoneLit(line), line), line)>>
      [] shape = "null_index_x" ->
           \* x[i] = None
           <<ExprStmt(Assignment(Subscript(Identifier("x", line), "i", line),
                                 NoneLit(line), line), line)>>
      [] shape = "call_attr" ->
           \* f().b
           <<ExprStmt(Attribute(Call("f", line), "b", line), line)>>
      [] shape = "index_attr" ->
           \* x[i].b
           <<ExprStmt(Attribute(Subscript(Identifier("x", line), "i", line),
                                "b", line), line)>>
      [] shape = "def_g" ->
           \* def g():
           \*     x = None
           \*     x.a
           <<FunctionDefinitionAt("g",
                 <<ExprStmt(Assignment(Identifier("x", line + 1),
                                       NoneLit(line + 1), line + 1), line + 1),
                   ExprStmt(Attribute(Identifier("x", line + 2), "a", line + 2),
                            line + 2)>>,
                 line)>>

RECURSIVE BodyNodes(_, _)
BodyNodes(shapes, line) ==
    IF shapes = <<>> THEN <<>>
    ELSE StmtNodes(Head(shapes), line)
         \o BodyNodes(Tail(shapes), line + ShapeLines(Head(shapes)))

\* def f():  followed by the statements, one shape per line from line 2 on
FunctionDefinition(name, shapes) ==
    FunctionDefinitionAt(name, BodyNodes(shapes, 2), 1)

RECURSIVE SeqsUpTo(_, _)
SeqsUpTo(S, n) ==
    IF n = 0 THEN {<<>>}
    ELSE LET shorter == SeqsUpTo(S, n - 1)
         IN  shorter \cup {Append(s, e) : s \in shorter, e \in S}

Bodies == SeqsUpTo(StmtShapes, MaxStmts) \ {<<>>}

\* The statement shapes of the functions handed to the extraction alone.
ParseShapes ==
    StmtShapes \cup {"null_x_twice", "null_attr_x", "null_index_x",
                     "call_attr", "index_attr", "def_g"}

ParseBodies == SeqsUpTo(ParseShapes, MaxStmts) \ {<<>>}

(***************************************************************************)
(* parser.py                                                               *)
(***************************************************************************)
\* The nodes in the order the three visit(node) functions reach them: the
\* node, then for child in node.children: visit(child).
RECURSIVE Preorder(_)
RECURSIVE PreorderAll(_, _)
Preorder(node) == <<node>> \o PreorderAll(node.children, 1)
PreorderAll(children, i) ==
    IF i > Len(children) THEN <<>>
    ELSE Preorder(children[i]) \o PreorderAll(children, i + 1)

\* the children of `node` with the given type, in order
ChildrenOfType(node, type) ==
    LET HasType(child) == child.type = type
    IN  SelectSeq(node.children, HasType)

Last(seq) == seq[Len(seq)]

Event(variable, line) == [variable |-> variable, line |-> line]

\* CodeParser.extract_functions: a function definition node gives a unit,
\* named by its first identifier child
IsNamedFunction(node) ==
    node.type = "function_definition" /\ ChildrenOfType(node, "identifier") # <<>>

extract_functions(root) ==
    LET defs == SelectSeq(Preorder(root), IsNamedFunction)
    IN  [k \in DOMAIN defs |->
            [name |-> Head(ChildrenOfType(defs[k], "identifier")).text,
             start_line |-> defs[k].line,
             node |-> defs[k]]]

\* CodeParser.find_null_assignments: an assignment node with a none child
\* and an identifier child gives an event of its last identifier child
IsNullAssignment(node) ==
    /\ node.type = "assignment"
    /\ ChildrenOfType(node, "none") # <<>>
    /\ ChildrenOfType(node, "identifier") # <<>>

find_null_assignments_TopLevel(func_node) ==
    LET IsTop(stmt) == stmt.type = "expression_statement"
                       /\ IsNullAssignment(stmt.children[1])
        stmts == SelectSeq(Last(func_node.children).children, IsTop)
    IN  [k \in DOMAIN stmts |->
            LET var_node == Last(ChildrenOfType(stmts[k].children[1], "identifier"))
            IN  Event(var_node.text, var_node.line)]

find_null_assignments(func_node) ==
    LET assigns == SelectSeq(Preorder(func_node), IsNullAssignment)
    IN  [k \in DOMAIN assigns |->
            LET var_node == Last(ChildrenOfType(assigns[k], "identifier"))
            IN  Event(var_node.text, var_node.line)]

\* CodeParser.find_attribute_access: an attribute node with an identifier
\* child gives an event of its first identifier child, unless the
\* (variable, line) key of the event is in seen
IsAccess(node) ==
    node.type = "attribute" /\ ChildrenOfType(node, "identifier") # <<>>

Keys(results) == {<<results[i].variable, results[i].line>> : i \in DOMAIN results}

Seen_Never(key, results) == FALSE

\* key in seen
Seen(key, results) == key \in Keys(results)

RECURSIVE AttrVisit(_, _, _)
AttrVisit(accesses, i, results) ==
    IF i > Len(accesses) THEN results
    ELSE LET child == Head(ChildrenOfType(accesses[i], "identifier"))
             key == <<child.text, child.line>>
         IN  IF ~Seen(key, results)
             THEN AttrVisit(accesses, i + 1, Append(results, Event(key[1], key[2])))
             ELSE AttrVisit(accesses, i + 1, results)

find_attribute_access(func_node) ==
    AttrVisit(SelectSeq(Preorder(func_node), IsAccess), 1, <<>>)

(***************************************************************************)
(* Python values.  A scalar is written as its repr ("True", "None", "1"),  *)
(* a string as itself; a dict is a function from its keys to values.       *)
(***************************************************************************)
PyTrue == "True"
PyFalse == "False"
PyNone == "None"

\* bool(value) of the values the model uses
Truthy(value) == value \notin {PyFalse, PyNone, "0", ""}

EmptyDict == [k \in {} |-> ""]

\* d[key] = value
Put(d, key, value) ==
    [k \in DOMAIN d \cup {key} |-> IF k = key THEN value ELSE d[k]]

\* d.get(key, default)
Get(d, key, default) == IF key \in DOMAIN d THEN d[key] ELSE default

\* A value json.loads can return: a dict (obj), or a list or a string, of
\* which `items` keeps the names x for which `x in value` is true, or a
\* number, null or a boolean.
PyValue(pytype, obj, items) == [pytype |-> pytype, obj |-> obj, items |-> items]

Dict(obj) == PyValue("dict", obj, {})

(***************************************************************************)
(* llm_client.py                                                           *)
(***************************************************************************)
required_fields == <<"has_dangerous_path", "is_bug", "severity">>

Required == {required_fields[i] : i \in DOMAIN required_fields}

OptionalFields == {"path_description", "trigger_condition", "reason"}

\* the dict of the three handlers that give up on the reply; the error text
\* is kept as the sequence of its parts
ErrorVerdict_IsBug(detail) ==
    Dict([has_dangerous_path |-> PyFalse, is_bug |-> PyTrue,
          severity |-> "Low", error |-> detail])

ErrorVerdict(detail) ==
    Dict([has_dangerous_path |-> PyFalse, is_bug |-> PyFalse,
          severity |-> "Low", error |-> detail])

\* the outcome of a piece of code inside the try block
Returned(value) == [raised |-> FALSE, error |-> <<>>, value |-> value]
Raised(error) == [raised |-> TRUE, error |-> error, value |-> Dict(EmptyDict)]

\* `field not in result`
NotIn(field, result) ==
    CASE result.pytype = "dict" -> Returned(IF field \in DOMAIN result.obj
                                            THEN PyFalse ELSE PyTrue)
      [] result.pytype \in {"list", "str"} ->
           Returned(IF field \in result.items THEN PyFalse ELSE PyTrue)
      [] OTHER -> Raised(<<"TypeError", "argument is not iterable">>)

\* result[field] = value
SetItem(result, field, value) ==
    IF result.pytype = "dict"
    THEN Returned(Dict(Put(result.obj, field, value)))
    ELSE Raised(<<"TypeError", "object does not support item assignment">>)

FieldDefault_Swapped(field) == IF field = "severity" THEN PyFalse ELSE "Low"

\* False if field != 'severity' else 'Low'
FieldDefault(field) == IF field # "severity" THEN PyFalse ELSE "Low"

\* for field in required_fields: if field not in result: result[field] = ...
RECURSIVE ValidateFields(_, _)
ValidateFields(result, i) ==
    IF i > Len(required_fields) THEN Returned(result)
    ELSE LET field == required_fields[i]
             missing == NotIn(field, result)
         IN  IF missing.raised THEN missing
             ELSE IF missing.value = PyTrue
             THEN LET set == SetItem(result, field, FieldDefault(field))
                  IN  IF set.raised THEN set
                      ELSE ValidateFields(set.value, i + 1)
             ELSE ValidateFields(result, i + 1)

\* What Generation.call does: it raises, or it answers with a status code,
\* a message and, when the status is 200, a content text that json.loads
\* rejects or turns into `value` (after the markdown fences are cut off).
Response(status_code, message, valid_json, value) ==
    [raises |-> FALSE, detail |-> message, status_code |-> status_code,
     valid_json |-> valid_json, value |-> value]

CallRaises(detail) ==
    [raises |-> TRUE, detail |-> detail, status_code |-> 0,
     valid_json |-> FALSE, value |-> Dict(EmptyDict)]

HTTP_OK == 200

\* str(status_code) of the status codes of the model
StatusText(status_code) ==
    CASE status_code = 200 -> "200"
      [] status_code = 429 -> "429"
      [] status_code = 500 -> "500"

\* f"API返回错误码: {response.status_code}, 消息: {response.message}"
ApiErrorMsg(r) == <<"API error code", StatusText(r.status_code), r.detail>>

\* the status code is taken for a success whatever it is
analyze_npd_path_AnyStatus(r) ==
    IF r.raises
    THEN ErrorVerdict(<<r.detail>>)
    ELSE IF ~r.valid_json
    THEN ErrorVerdict(<<"JSON parse failed", "JSONDecodeError">>)
    ELSE LET validated == ValidateFields(r.value, 1)
         IN  IF validated.raised
             THEN ErrorVerdict(validated.error)
             ELSE validated.value

\* LLMClient.analyze_npd_path, from the reply of Generation.call on
analyze_npd_path(r) ==
    IF r.raises
    THEN \* except Exception
         ErrorVerdict(<<r.detail>>)
    ELSE IF r.status_code = HTTP_OK
    THEN IF ~r.valid_json
         THEN \* except json.JSONDecodeError
              ErrorVerdict(<<"JSON parse failed", "JSONDecodeError">>)
         ELSE LET validated == ValidateFields(r.value, 1)
              IN  IF validated.raised
                  THEN \* except Exception
                       ErrorVerdict(validated.error)
                  ELSE validated.value
    ELSE ErrorVerdict(ApiErrorMsg(r))

(***************************************************************************)
(* The replies of the oracle.                                              *)
(***************************************************************************)
Absent == "<absent>"

HdpValues == {PyTrue, PyFalse}
IsBugValues == {PyTrue, PyFalse, PyNone, "false"}
SeverityValues == {"Critical", "High", "Medium", "Low", "Info", "Unknown"}

\* the dict with the keys of `fields` that are not Absent
DictOf(fields) ==
    [k \in {f \in DOMAIN fields : fields[f] # Absent} |-> fields[k]]

ReplyDicts ==
    {DictOf(f) : f \in [has_dangerous_path : HdpValues \cup {Absent},
                        is_bug : IsBugValues \cup {Absent},
                        severity : SeverityValues \cup {Absent},
                        path_description : {"path", Absent},
                        trigger_condition : {"flag=False", Absent},
                        reason : {"unguarded", Absent}]}

\* replies that are valid JSON but no record
NonDictValues ==
    {PyValue(t, EmptyDict, items) : t \in {"list", "str"}, items \in SUBSET Required}
    \cup {PyValue(t, EmptyDict, {}) : t \in {"int", "NoneType", "bool"}}

TransportFailures ==
    {CallRaises("ConnectionError"),
     Response(429, "Throttled", FALSE, Dict(EmptyDict)),
     Response(500, "InternalError", FALSE, Dict(EmptyDict))}

InvalidJson == Response(HTTP_OK, "", FALSE, Dict(EmptyDict))

Replies ==
    TransportFailures \cup {InvalidJson}
    \cup {Response(HTTP_OK, "", TRUE, v) : v \in NonDictValues}
    \cup {Response(HTTP_OK, "", TRUE, Dict(d)) : d \in ReplyDicts}

\* the replies the oracle gives while a function is analysed
FunctionReplies ==
    {r \in Replies :
        \/ r.raises \/ r.status_code # HTTP_OK \/ ~r.valid_json
        \/ /\ r.value.pytype \in {"list", "NoneType"}
           /\ r.value.items \in {{}, Required}
        \/ /\ r.value.pytype = "dict"
           /\ "has_dangerous_path" \in DOMAIN r.value.obj
           /\ r.value.obj["has_dangerous_path"] = PyTrue
           /\ DOMAIN r.value.obj \cap OptionalFields = {}
           /\ Get(r.value.obj, "severity", Absent) \in {Absent, "High"}}

NoReply == Response(0, "", FALSE, Dict(EmptyDict))

(***************************************************************************)
(* analyzer.py                                                             *)
(***************************************************************************)
FilePath == "test.py"

Pairs_SameLineToo(null_assign, attr_access) ==
    /\ null_assign.variable = attr_access.variable
    /\ null_assign.line <= attr_access.line

\* the pairing condition of the matching loops
Pairs(null_assign, attr_access) ==
    /\ null_assign.variable = attr_access.variable
    /\ null_assign.line < attr_access.line

\* for null_assign in null_assigns: for attr_access in attr_accesses: ...
RECURSIVE MatchInner_FirstMatch(_, _, _, _)
MatchInner_FirstMatch(null_assign, accesses, j, acc) ==
    IF j > Len(accesses) THEN acc
    ELSE IF Pairs(null_assign, accesses[j])
    THEN Append(acc, <<null_assign, accesses[j]>>)
    ELSE MatchInner_FirstMatch(null_assign, accesses, j + 1, acc)

RECURSIVE MatchInner(_, _, _, _)
MatchInner(null_assign, accesses, j, acc) ==
    IF j > Len(accesses) THEN acc
    ELSE MatchInner(null_assign, accesses, j + 1,
                    IF Pairs(null_assign, accesses[j])
                    THEN Append(acc, <<null_assign, accesses[j]>>)
                    ELSE acc)

RECURSIVE MatchOuter(_, _, _, _)
MatchOuter(assigns, accesses, i, acc) ==
    IF i > Len(assigns) THEN acc
    ELSE MatchOuter(assigns, accesses, i + 1,
                    MatchInner(assigns[i], accesses, 1, acc))

Match(assigns, accesses) == MatchOuter(assigns, accesses, 1, <<>>)

\* the finding recorded for a candidate and its verdict
Bug(fn, null_assign, attr_access, verdict) ==
    [file |-> file_path,
     function |-> fn.name,
     variable |-> null_assign.variable,
     null_line |-> null_assign.line,
     use_line |-> attr_access.line,
     severity |-> Get(verdict, "severity", "Medium"),
     description |-> Get(verdict, "path_description", ""),
     trigger_condition |-> Get(verdict, "trigger_condition", "none"),
     reason |-> Get(verdict, "reason", "")]

\* if llm_result.get('is_bug')
IsBug(verdict) == Truthy(Get(verdict, "is_bug", PyNone))

(***************************************************************************)
(* main.py                                                                 *)
(***************************************************************************)
severity_order(severity) ==
    CASE severity = "Critical" -> 0
      [] severity = "High" -> 1
      [] severity = "Medium" -> 2
      [] severity = "Low" -> 3
      [] OTHER -> 4

SortKey(b) == severity_order(b.severity)

\* sorted(): a stable sort, here by insertion behind the equal keys
RECURSIVE InsertByKey_BeforeEqual(_, _, _)
InsertByKey_BeforeEqual(sorted, b, i) ==
    IF i > Len(sorted) \/ SortKey(b) <= SortKey(sorted[i])
    THEN SubSeq(sorted, 1, i - 1) \o <<b>> \o SubSeq(sorted, i, Len(sorted))
    ELSE InsertByKey_BeforeEqual(sorted, b, i + 1)

RECURSIVE InsertByKey(_, _, _)
InsertByKey(sorted, b, i) ==
    IF i > Len(sorted) \/ SortKey(b) < SortKey(sorted[i])
    THEN SubSeq(sorted, 1, i - 1) \o <<b>> \o SubSeq(sorted, i, Len(sorted))
    ELSE InsertByKey(sorted, b, i + 1)

RECURSIVE SortedFrom(_, _, _)
SortedFrom(list, i, acc) ==
    IF i > Len(list) THEN acc
    ELSE SortedFrom(list, i + 1, InsertByKey(acc, list[i], 1))

Sorted(list) == SortedFrom(list, 1, <<>>)

(***************************************************************************)
(* The run of one function unit through NPDAnalyzer._analyze_function and  *)
(* the summary of main.                                                    *)
(***************************************************************************)
Module(shapes) == Node("module", "", 1, <<FunctionDefinition("f", shapes)>>)

InitCommon ==
    /\ null_assigns = <<>>
    /\ attr_accesses = <<>>
    /\ sink_run = FALSE
    /\ matches = <<>>
    /\ idx = 0
    /\ calls = 0
    /\ llm_result = Dict(EmptyDict)
    /\ sorted_bugs = <<>>

\* the state of main while one function unit of the file FilePath is analysed
InitMain ==
    /\ env = [api_key |-> TRUE, deps |-> TRUE]
    /\ target = "file"
    /\ files = <<>>
    /\ file_idx = 1
    /\ file_path = FilePath
    /\ functions = <<>>
    /\ fn_idx = 1
    /\ file_bugs = <<>>
    /\ main_bugs = <<>>
    /\ exit_code = <<>>

Init ==
    /\ \E shapes \in Bodies : func = extract_functions(Module(shapes))[1]
    /\ pc = "sources"
    /\ reply = NoReply
    /\ bugs = <<>>
    /\ InitCommon
    /\ InitMain

FindSources_NoEarlyReturn ==
    /\ pc = "sources"
    /\ null_assigns' = find_null_assignments(func.node)
    /\ pc' = "sinks"
    /\ UNCHANGED <<func, attr_accesses, sink_run, matches, idx, calls, reply,
                   llm_result, bugs, sorted_bugs>>
    /\ UNCHANGED run_vars

\* null_assigns = self.parser.find_null_assignments(func['node'])
FindSources ==
    /\ pc = "sources"
    /\ null_assigns' = find_null_assignments(func.node)
    /\ pc' = IF null_assigns' = <<>> THEN "return" ELSE "sinks"
    /\ UNCHANGED <<func, attr_accesses, sink_run, matches, idx, calls, reply,
                   llm_result, bugs, sorted_bugs>>
    /\ UNCHANGED run_vars

\* attr_accesses = self.parser.find_attribute_access(func['node'])
FindSinks ==
    /\ pc = "sinks"
    /\ attr_accesses' = find_attribute_access(func.node)
    /\ sink_run' = TRUE
    /\ pc' = IF attr_accesses' = <<>> THEN "return" ELSE "match"
    /\ UNCHANGED <<func, null_assigns, matches, idx, calls, reply, llm_result,
                   bugs, sorted_bugs>>
    /\ UNCHANGED run_vars

\* the matching loops
MatchEvents ==
    /\ pc = "match"
    /\ matches' = Match(null_assigns, attr_accesses)
    /\ idx' = 1
    /\ pc' = IF matches' = <<>> THEN "return" ELSE "verify"
    /\ UNCHANGED <<func, null_assigns, attr_accesses, sink_run, calls, reply,
                   llm_result, bugs, sorted_bugs>>
    /\ UNCHANGED run_vars

\* one round of the loop over the matches, the oracle answering r
VerifyWith(r) ==
    LET verdict == analyze_npd_path(r)
    IN  /\ reply' = r
        /\ llm_result' = verdict
        /\ calls' = calls + 1
        /\ IF verdict.pytype # "dict"
           THEN \* llm_result.get raises AttributeError
                /\ pc' = "raised"
                /\ UNCHANGED <<idx, bugs>>
           ELSE /\ bugs' = IF IsBug(verdict.obj)
                           THEN Append(bugs, Bug(func, matches[idx][1],
                                                 matches[idx][2], verdict.obj))
                           ELSE bugs
                /\ idx' = idx + 1
                /\ pc' = IF idx = Len(matches) THEN "return" ELSE "verify"

Verify ==
    /\ pc = "verify"
    /\ \E r \in FunctionReplies : VerifyWith(r)
    /\ UNCHANGED <<func, null_assigns, attr_accesses, sink_run, matches,
                   sorted_bugs>>
    /\ UNCHANGED run_vars

\* main: the summary of the findings, ranked by severity
Summary ==
    /\ pc = "return"
    /\ sorted_bugs' = IF bugs # <<>> THEN Sorted(bugs) ELSE sorted_bugs
    /\ pc' = "done"
    /\ UNCHANGED <<func, null_assigns, attr_accesses, sink_run, matches, idx,
                   calls, reply, llm_result, bugs>>
    /\ UNCHANGED run_vars

Next == FindSources \/ FindSinks \/ MatchEvents \/ Verify \/ Summary

Spec == Init /\ [][Next]_vars

(***************************************************************************)
(* LLMClient.analyze_npd_path on each reply of the oracle.                 *)
(***************************************************************************)
InitGateway ==
    /\ func = extract_functions(Module(<<"null_x", "use_x">>))[1]
    /\ pc = "call"
    /\ reply \in Replies
    /\ bugs = <<>>
    /\ InitCommon
    /\ InitMain

AnalyzeNpdPath ==
    /\ pc = "call"
    /\ llm_result' = analyze_npd_path(reply)
    /\ calls' = calls + 1
    /\ pc' = "returned"
    /\ UNCHANGED <<func, null_assigns, attr_accesses, sink_run, matches, idx,
                   reply, bugs, sorted_bugs>>
    /\ UNCHANGED run_vars

NextGateway == AnalyzeNpdPath

SpecGateway == InitGateway /\ [][NextGateway]_vars

(***************************************************************************)
(* The severity ranking of main on each list of findings.                  *)
(***************************************************************************)
\* the finding at position i of a function with one source and i sinks
FindingAt(i, severity) ==
    [file |-> FilePath, function |-> "f", variable |-> "x", null_line |-> 2,
     use_line |-> 2 + i, severity |-> severity, description |-> "",
     trigger_condition |-> "none", reason |-> ""]

FindingLists ==
    UNION {{[i \in 1..n |-> FindingAt(i, sev[i])] : sev \in [1..n -> SeverityValues]}
           : n \in 0..MaxBugs}

InitRank ==
    /\ func = extract_functions(Module(<<"null_x", "use_x">>))[1]
    /\ pc = "return"
    /\ reply = NoReply
    /\ bugs \in FindingLists
    /\ InitCommon
    /\ InitMain

NextRank == Summary

SpecRank == InitRank /\ [][NextRank]_vars

(***************************************************************************)
(* The extraction of CodeParser on each function: find_null_assignments    *)
(* and find_attribute_access as _analyze_function calls them.              *)
(***************************************************************************)
InitParse ==
    /\ \E shapes \in ParseBodies : func = extract_functions(Module(shapes))[1]
    /\ pc = "sources"
    /\ reply = NoReply
    /\ bugs = <<>>
    /\ InitCommon
    /\ InitMain

NextParse == FindSources \/ FindSinks

SpecParse == InitParse /\ [][NextParse]_vars

(***************************************************************************)
(* A run of main: check_environment, the target, NPDAnalyzer.analyze_file  *)
(* on each file, _analyze_function on each function unit, the summary and  *)
(* the exit status.                                                        *)
(***************************************************************************)
\* files of a target directory
MaxFiles == 2

\* the paths Path(target).rglob("*.py") lists, in order
PathNames == <<"a.py", "b.py", "c.py", "d.py">>

\* the names of the top-level functions of a file, in order
FunctionNames == <<"f", "h">>

\* A file on disk: unreadable or undecodable, or the bodies of its
\* top-level functions.
Source(bodies) == [readable |-> TRUE, bodies |-> bodies]

Unreadable == [readable |-> FALSE, bodies |-> <<>>]

FileSources ==
    {Unreadable,
     Source(<<>>),
     Source(<< <<"null_x", "use_x">> >>),
     Source(<< <<"null_x_twice", "use_x">> >>),
     Source(<< <<"null_x", "def_g">> >>),
     Source(<< <<"null_x", "use_x", "use_x">>, <<"null_x", "use_x">> >>)}

RECURSIVE BodyLines(_)
BodyLines(shapes) ==
    IF shapes = <<>> THEN 0
    ELSE ShapeLines(Head(shapes)) + BodyLines(Tail(shapes))

\* the top-level function definitions of a file, one below the other
RECURSIVE Definitions(_, _, _)
Definitions(bodies, k, line) ==
    IF k > Len(bodies) THEN <<>>
    ELSE <<FunctionDefinitionAt(FunctionNames[k],
                                BodyNodes(bodies[k], line + 1), line)>>
         \o Definitions(bodies, k + 1, line + 1 + BodyLines(bodies[k]))

\* CodeParser.parse_file on a readable file: the root node of its tree
parse_file(source) == Node("module", "", 1, Definitions(source.bodies, 1, 1))

\* no function unit is under analysis
NoFunc == [name |-> "", start_line |-> 0, node |-> Leaf("module", "", 0)]

\* the replies the oracle gives during a run
RunReplies ==
    {r \in FunctionReplies :
        \/ r.raises
        \/ /\ ~r.raises /\ r.status_code = HTTP_OK /\ r.valid_json
           /\ \/ r.value.pytype = "list" /\ r.value.items = Required
              \/ /\ r.value.pytype = "dict"
                 /\ Get(r.value.obj, "is_bug", Absent) = PyTrue}

\* sys.exit(code)
sys_exit(code) == <<code>>

check_environment_KeyOnly(e) == e.api_key

\* check_environment(): the credential is set and the dependencies import
check_environment(e) == e.api_key /\ e.deps

InitRun ==
    /\ env \in [api_key : BOOLEAN, deps : BOOLEAN]
    /\ target \in {"missing", "file", "dir"}
    /\ files \in SeqsUpTo(FileSources, MaxFiles)
    /\ target = "missing" => files = <<>>
    /\ target = "file" => Len(files) = 1
    /\ file_idx = 0
    /\ file_path = ""
    /\ functions = <<>>
    /\ fn_idx = 0
    /\ file_bugs = <<>>
    /\ main_bugs = <<>>
    /\ exit_code = <<>>
    /\ func = NoFunc
    /\ pc = "main"
    /\ reply = NoReply
    /\ bugs = <<>>
    /\ InitCommon

\* the locals of _analyze_function
locals == <<null_assigns, attr_accesses, sink_run, matches, idx, calls, reply,
            llm_result, bugs>>

\* if not check_environment(): sys.exit(1)
CheckEnvironment ==
    /\ pc = "main"
    /\ IF check_environment(env)
       THEN pc' = "target" /\ UNCHANGED exit_code
       ELSE pc' = "exit_config" /\ exit_code' = sys_exit(1)
    /\ UNCHANGED <<func, locals, sorted_bugs, env, target, files, file_idx,
                   file_path, functions, fn_idx, file_bugs, main_bugs>>

\* if not os.path.exists(target): sys.exit(1); analyzer = NPDAnalyzer()
CheckTarget ==
    /\ pc = "target"
    /\ IF target = "missing"
       THEN pc' = "exit_missing" /\ exit_code' = sys_exit(1)
            /\ UNCHANGED file_idx
       ELSE /\ file_idx' = 1
            /\ pc' = IF files = <<>> THEN "report" ELSE "file"
            /\ UNCHANGED exit_code
    /\ UNCHANGED <<func, locals, sorted_bugs, env, target, files, file_path,
                   functions, fn_idx, file_bugs, main_bugs>>

\* analyze_file returns `found`: bugs.extend(...) and the next file
NextFile(found) ==
    /\ main_bugs' = main_bugs \o found
    /\ file_idx' = file_idx + 1
    /\ pc' = IF file_idx = Len(files) THEN "report" ELSE "file"
    /\ functions' = <<>>
    /\ fn_idx' = 0
    /\ file_bugs' = <<>>
    /\ func' = NoFunc

\* analyze_file: parse_file and extract_functions inside the try
AnalyzeFile ==
    /\ pc = "file"
    /\ file_path' = PathNames[file_idx]
    /\ LET source == files[file_idx]
           units == extract_functions(parse_file(source))
       IN  IF ~source.readable \/ units = <<>>
           THEN \* except Exception: return [], or no function to analyse
                NextFile(<<>>)
           ELSE /\ functions' = units
                /\ fn_idx' = 1
                /\ func' = units[1]
                /\ file_bugs' = <<>>
                /\ pc' = "sources"
                /\ UNCHANGED <<main_bugs, file_idx>>
    /\ UNCHANGED <<locals, sorted_bugs, env, target, files, exit_code>>

\* one round of the loop over the matches during a run
VerifyRun ==
    /\ pc = "verify"
    /\ \E r \in RunReplies : VerifyWith(r)
    /\ UNCHANGED <<func, null_assigns, attr_accesses, sink_run, matches,
                   sorted_bugs>>
    /\ UNCHANGED run_vars

ReturnFunction_Early ==
    /\ pc \in {"return", "verify"}
    /\ null_assigns' = <<>>
    /\ attr_accesses' = <<>>
    /\ sink_run' = FALSE
    /\ matches' = <<>>
    /\ idx' = 0
    /\ calls' = 0
    /\ reply' = NoReply
    /\ llm_result' = Dict(EmptyDict)
    /\ bugs' = <<>>
    /\ IF fn_idx < Len(functions)
       THEN /\ file_bugs' = file_bugs \o bugs
            /\ fn_idx' = fn_idx + 1
            /\ func' = functions[fn_idx + 1]
            /\ pc' = "sources"
            /\ UNCHANGED <<functions, main_bugs, file_idx>>
       ELSE NextFile(file_bugs \o bugs)
    /\ UNCHANGED <<sorted_bugs, env, target, files, file_path, exit_code>>

\* _analyze_function returns: file_bugs.extend(func_bugs), the next function
ReturnFunction ==
    /\ pc = "return"
    /\ null_assigns' = <<>>
    /\ attr_accesses' = <<>>
    /\ sink_run' = FALSE
    /\ matches' = <<>>
    /\ idx' = 0
    /\ calls' = 0
    /\ reply' = NoReply
    /\ llm_result' = Dict(EmptyDict)
    /\ bugs' = <<>>
    /\ IF fn_idx < Len(functions)
       THEN /\ file_bugs' = file_bugs \o bugs
            /\ fn_idx' = fn_idx + 1
            /\ func' = functions[fn_idx + 1]
            /\ pc' = "sources"
            /\ UNCHANGED <<functions, main_bugs, file_idx>>
       ELSE NextFile(file_bugs \o bugs)
    /\ UNCHANGED <<sorted_bugs, env, target, files, file_path, exit_code>>

\* except Exception as e: traceback.print_exc(); sys.exit(1)
Escalate ==
    /\ pc = "raised"
    /\ pc' = "exit_error"
    /\ exit_code' = sys_exit(1)
    /\ UNCHANGED <<func, locals, sorted_bugs, env, target, files, file_idx,
                   file_path, functions, fn_idx, file_bugs, main_bugs>>

\* except KeyboardInterrupt: sys.exit(0), the user interrupting while a
\* file is read or the oracle is awaited
Interrupt ==
    /\ pc \in {"file", "verify"}
    /\ pc' = "exit_interrupted"
    /\ exit_code' = sys_exit(0)
    /\ UNCHANGED <<func, locals, sorted_bugs, env, target, files, file_idx,
                   file_path, functions, fn_idx, file_bugs, main_bugs>>

Report_SortInPlace ==
    /\ pc = "report"
    /\ main_bugs' = Sorted(main_bugs)
    /\ sorted_bugs' = IF main_bugs # <<>> THEN main_bugs' ELSE sorted_bugs
    /\ pc' = "exit_ok"
    /\ exit_code' = sys_exit(0)
    /\ UNCHANGED <<func, locals, env, target, files, file_idx, file_path,
                   functions, fn_idx, file_bugs>>

\* the reports and the ranked summary; main returns
Report ==
    /\ pc = "report"
    /\ sorted_bugs' = IF main_bugs # <<>> THEN Sorted(main_bugs) ELSE sorted_bugs
    /\ pc' = "exit_ok"
    /\ exit_code' = sys_exit(0)
    /\ UNCHANGED <<func, locals, env, target, files, file_idx, file_path,
                   functions, fn_idx, file_bugs, main_bugs>>

NextRun ==
    \/ CheckEnvironment \/ CheckTarget \/ AnalyzeFile
    \/ FindSources \/ FindSinks \/ MatchEvents \/ VerifyRun
    \/ ReturnFunction \/ Escalate \/ Interrupt \/ Report

SpecRun == InitRun /\ [][NextRun]_vars

(***************************************************************************)
(* Properties.                                                             *)
(***************************************************************************)
\* the matching loops have run
Matched == pc \in {"verify", "raised", "return", "done"} /\ sink_run /\ attr_accesses # <<>>

\* the (source, sink) index pairs with one variable and the source line first
PairIdx ==
    {ij \in (DOMAIN null_assigns) \X (DOMAIN attr_accesses) :
        /\ null_assigns[ij[1]].variable = attr_accesses[ij[2]].variable
        /\ null_assigns[ij[1]].line < attr_accesses[ij[2]].line}

\* C1: every candidate of the matching step has its source line strictly
\* below its sink line, and so has every finding made from a candidate; a
\* source and a sink of one variable on one line are not paired.
C1_SourceBeforeSink ==
    /\ \A k \in DOMAIN matches :
          /\ matches[k][1].variable = matches[k][2].variable
          /\ matches[k][1].line < matches[k][2].line
    /\ \A k \in DOMAIN bugs : bugs[k].null_line < bugs[k].use_line

\* a function with a source and a sink of x on one line has been matched,
\* and it has candidates
C1_Witness ==
    /\ Matched
    /\ matches # <<>>
    /\ \E i \in DOMAIN null_assigns, j \in DOMAIN attr_accesses :
          /\ null_assigns[i].variable = attr_accesses[j].variable
          /\ null_assigns[i].line = attr_accesses[j].line

\* C2: the matches are the full cross product filter: one candidate for
\* each (source event, sink event) pair with one variable and source line
\* below sink line, and nothing else, so m sources before n sinks of one
\* variable give m * n candidates.
C2_FullCrossProduct ==
    Matched =>
        /\ Len(matches) = Cardinality(PairIdx)
        /\ \A ij \in PairIdx :
              Cardinality({k \in DOMAIN matches :
                              matches[k] = <<null_assigns[ij[1]], attr_accesses[ij[2]]>>})
              = Cardinality({ij2 \in PairIdx :
                                /\ null_assigns[ij2[1]] = null_assigns[ij[1]]
                                /\ attr_accesses[ij2[2]] = attr_accesses[ij[2]]})
        /\ \A k \in DOMAIN matches :
              \E ij \in PairIdx :
                 matches[k] = <<null_assigns[ij[1]], attr_accesses[ij[2]]>>

\* one source is paired with two sinks behind it
C2_Witness ==
    /\ Matched
    /\ \E k1, k2 \in DOMAIN matches :
          /\ k1 # k2
          /\ matches[k1][1] = matches[k2][1]
          /\ matches[k1][2] # matches[k2][2]

\* C3: a function without sentinel assignments, or without hazardous
\* accesses, gets no candidate, no oracle call and no finding; without
\* sentinel assignments the sinks are not extracted at all.
C3_NoEventsNoWork ==
    /\ (pc \in {"return", "done"} /\ null_assigns = <<>>)
          => (~sink_run /\ matches = <<>> /\ calls = 0 /\ bugs = <<>>)
    /\ (pc \in {"return", "done"} /\ sink_run /\ attr_accesses = <<>>)
          => (matches = <<>> /\ calls = 0 /\ bugs = <<>>)

\* a function that has member accesses and no sentinel assignment has returned
C3_Witness ==
    /\ pc = "return"
    /\ null_assigns = <<>>
    /\ find_attribute_access(func.node) # <<>>

\* the (variable, line) keys of the member accesses of a subtree, one for
\* each attribute node that has an identifier child, in pre-order
AccessKeys(node) ==
    LET accesses == SelectSeq(Preorder(node), IsAccess)
    IN  [k \in DOMAIN accesses |->
            LET child == Head(ChildrenOfType(accesses[k], "identifier"))
            IN  <<child.text, child.line>>]

\* the position of the first occurrence of key in keys
FirstAt(keys, key) ==
    CHOOSE i \in DOMAIN keys :
        keys[i] = key /\ \A j \in 1..(i - 1) : keys[j] # key

\* C4: the sink events of a function hold no (variable, line) pair twice:
\* each pair accessed in the subtree has exactly one event, and the events
\* are in the order of the first occurrences.
C4_SinksDeduplicated ==
    sink_run =>
        LET keys == AccessKeys(func.node)
            key(i) == <<attr_accesses[i].variable, attr_accesses[i].line>>
        IN  /\ \A i, j \in DOMAIN attr_accesses : key(i) = key(j) => i = j
            /\ {key(i) : i \in DOMAIN attr_accesses}
                 = {keys[i] : i \in DOMAIN keys}
            /\ \A i, j \in DOMAIN attr_accesses :
                  i < j => FirstAt(keys, key(i)) < FirstAt(keys, key(j))

\* the sinks of a function with two accesses to one variable on one line
C4_Witness ==
    /\ sink_run
    /\ LET keys == AccessKeys(func.node)
       IN  \E i, j \in DOMAIN keys : i # j /\ keys[i] = keys[j]

\* the call to the oracle failed, or its reply is no JSON text
Failed(r) == r.raises \/ r.status_code # HTTP_OK \/ ~r.valid_json

\* C5: whatever the oracle replies, analyze_npd_path returns a record with
\* has_dangerous_path, is_bug and severity, and is_bug is false and the
\* severity Low when the reply was malformed.
C5_AlwaysVerdict ==
    pc = "returned" =>
        /\ llm_result.pytype = "dict"
        /\ Required \subseteq DOMAIN llm_result.obj
        /\ (Failed(reply) \/ reply.value.pytype # "dict")
              => /\ llm_result.obj["is_bug"] = PyFalse
                 /\ llm_result.obj["severity"] = "Low"

\* the reply is a record
WellFormed(r) == ~Failed(r) /\ r.value.pytype = "dict"

\* C6: a record reply comes back with the absent required fields at their
\* defaults and every field it had unchanged, and without error annotation.
C6_MissingFieldsDefaulted ==
    (pc = "returned" /\ WellFormed(reply)) =>
        /\ llm_result.pytype = "dict"
        /\ DOMAIN llm_result.obj = DOMAIN reply.value.obj \cup Required
        /\ \A k \in DOMAIN reply.value.obj : llm_result.obj[k] = reply.value.obj[k]
        /\ "has_dangerous_path" \notin DOMAIN reply.value.obj
              => llm_result.obj["has_dangerous_path"] = PyFalse
        /\ "is_bug" \notin DOMAIN reply.value.obj
              => llm_result.obj["is_bug"] = PyFalse
        /\ "severity" \notin DOMAIN reply.value.obj
              => llm_result.obj["severity"] = "Low"
        /\ "error" \notin DOMAIN llm_result.obj

\* a record without is_bug and severity, with an optional field, was answered
C6_Witness ==
    /\ pc = "returned"
    /\ WellFormed(reply)
    /\ DOMAIN reply.value.obj = {"has_dangerous_path", "reason"}

\* the verdict of a failure, whatever its error annotation
IsDefaultVerdict(v) ==
    /\ v.pytype = "dict"
    /\ DOMAIN v.obj = Required \cup {"error"}
    /\ v.obj["has_dangerous_path"] = PyFalse
    /\ v.obj["is_bug"] = PyFalse
    /\ v.obj["severity"] = "Low"

\* a round of the verification loop was taken
Round == pc = "verify" /\ calls' = calls + 1

\* C7: when the oracle call throws or answers with a non-success status,
\* the verdict is the default one of a malformed reply, annotated with the
\* detail of the failure, and the loop goes on to the next candidate.
C7_TransportFailureDegrades ==
    [][(Round /\ (reply'.raises \/ reply'.status_code # HTTP_OK)) =>
          /\ IsDefaultVerdict(llm_result')
          /\ IsDefaultVerdict(analyze_npd_path(InvalidJson))
          /\ llm_result'.obj["error"] =
                IF reply'.raises THEN <<reply'.detail>>
                ELSE <<"API error code", StatusText(reply'.status_code), reply'.detail>>
          /\ idx' = idx + 1
          /\ pc' = IF idx = Len(matches) THEN "return" ELSE "verify"]_vars

\* after a transport failure the loop is at the next candidate
C7_Witness ==
    /\ pc = "verify"
    /\ idx = 2
    /\ reply \in TransportFailures
    /\ "error" \in DOMAIN llm_result.obj

\* C8: a finding is appended only for a verdict whose is_bug is true.
C8_FindingOnlyIfTrue ==
    [][Len(bugs') > Len(bugs) =>
          /\ "is_bug" \in DOMAIN llm_result'.obj
          /\ llm_result'.obj["is_bug"] = PyTrue]_vars

\* C9: a candidate whose oracle call failed (exception, non-success status,
\* reply that is no JSON) adds no finding, the findings of the candidates
\* before it stay as they are and the loop goes on to the next candidate.
C9_FailedCallNoFinding ==
    [][(Round /\ Failed(reply')) =>
          /\ bugs' = bugs
          /\ idx' = idx + 1
          /\ pc' # "raised"]_vars

\* a call failed in a run that has a finding of another candidate
C9_Witness ==
    /\ pc \in {"verify", "return"}
    /\ Failed(reply)
    /\ calls >= 2
    /\ bugs # <<>>

\* the rank of a severity: Critical < High < Medium < Low < anything else
RankOf(severity) ==
    LET order == <<"Critical", "High", "Medium", "Low">>
    IN  IF \E i \in DOMAIN order : order[i] = severity
        THEN CHOOSE i \in DOMAIN order : order[i] = severity
        ELSE Len(order) + 1

\* C10: the ranked view is a permutation of the findings, ordered by the
\* rank of the severity, findings of one rank in their discovery order.
C10_RankedStablePermutation ==
    (pc = "done" /\ bugs # <<>>) =>
        \E p \in [DOMAIN bugs -> DOMAIN bugs] :
            /\ \A i, j \in DOMAIN bugs : p[i] = p[j] => i = j
            /\ sorted_bugs = [k \in DOMAIN bugs |-> bugs[p[k]]]
            /\ \A k, l \in DOMAIN bugs :
                  k < l =>
                     \/ RankOf(sorted_bugs[k].severity) < RankOf(sorted_bugs[l].severity)
                     \/ /\ RankOf(sorted_bugs[k].severity) = RankOf(sorted_bugs[l].severity)
                        /\ p[k] < p[l]

\* [Low, Critical, High] has been ranked to [Critical, High, Low]
C10_Witness ==
    /\ pc = "done"
    /\ Len(bugs) = 3
    /\ <<bugs[1].severity, bugs[2].severity, bugs[3].severity>>
          = <<"Low", "Critical", "High">>
    /\ <<sorted_bugs[1].severity, sorted_bugs[2].severity, sorted_bugs[3].severity>>
          = <<"Critical", "High", "Low">>
    /\ sorted_bugs[3] = bugs[1]

(***************************************************************************)
(* Properties of a run of main.                                            *)
(***************************************************************************)
\* main has left through sys.exit or by returning
Exited == exit_code # <<>>

\* C11: the exit status of main is non-zero when the run aborts (missing
\* configuration, missing target, interrupt by the user, exception of the
\* pipeline) and zero in every other case.
C11_ExitStatus ==
    Exited =>
        (exit_code # sys_exit(0)
            <=> pc \in {"exit_config", "exit_missing", "exit_interrupted",
                        "exit_error"})

\* C12: in a run with a configuration error (credential not set or a
\* dependency missing) no file is parsed, no function is analysed and no
\* oracle request is sent, and the run leaves with a failure status.
C12_ConfigErrorBeforeWork ==
    (~env.api_key \/ ~env.deps) =>
        /\ pc \in {"main", "exit_config"}
        /\ file_idx = 0 /\ file_path = ""
        /\ func = NoFunc /\ functions = <<>>
        /\ calls = 0
        /\ main_bugs = <<>>
        /\ Exited => exit_code = sys_exit(1)

\* a run on a directory with files has aborted: the dependencies are missing
C12_Witness ==
    /\ pc = "exit_config"
    /\ env.api_key /\ ~env.deps
    /\ target = "dir" /\ Len(files) = MaxFiles
    /\ exit_code = sys_exit(1)
    /\ file_idx = 0 /\ calls = 0

\* C13: a failure while one file of a directory is analysed stays with that
\* file: a directory run that the user does not interrupt analyses every
\* file of the directory and ends with the summary.
C13_FileErrorsIsolated ==
    (Exited /\ target = "dir" /\ pc \notin {"exit_config", "exit_interrupted"}) =>
        /\ pc = "exit_ok"
        /\ file_idx = Len(files) + 1

(***************************************************************************)
(* Properties of the extraction.                                           *)
(***************************************************************************)
\* the member accesses of the function whose object is a simple identifier
BaseAccesses ==
    LET HasSimpleBase(node) ==
            node.type = "attribute" /\ node.children[1].type = "identifier"
    IN  SelectSeq(Preorder(func.node), HasSimpleBase)

\* C14: every sink event names the identifier that is the object of a member
\* access, at the line of that identifier; the accessed member is never
\* reported as the variable.
C14_SinkNamesBase ==
    sink_run =>
        \A i \in DOMAIN attr_accesses :
            \E k \in DOMAIN BaseAccesses :
                /\ BaseAccesses[k].children[1].text = attr_accesses[i].variable
                /\ BaseAccesses[k].children[1].line = attr_accesses[i].line

\* C15: when the analysis of a function has ended, the number of oracle
\* requests sent for it equals the number of its candidates, each candidate
\* having been submitted once.
C15_OneRequestPerCandidate ==
    pc \in {"return", "raised", "done"} => calls = Len(matches)

\* what identifies a finding
FindingKey(bug) ==
    <<bug.file, bug.function, bug.variable, bug.null_line, bug.use_line>>

\* C16: the finding list of a run holds no two findings with the same file,
\* function, variable, source line and sink line.
C16_FindingsDeduplicated ==
    \A i, j \in DOMAIN main_bugs :
        i # j => FindingKey(main_bugs[i]) # FindingKey(main_bugs[j])

\* the assignments of the function with a simple identifier on the left and
\* the literal None on the right, in pre-order
SimpleNullAssignments ==
    LET IsSimpleNull(node) ==
            /\ node.type = "assignment"
            /\ node.children[1].type = "identifier"
            /\ Last(node.children).type = "none"
    IN  SelectSeq(Preorder(func.node), IsSimpleNull)

\* C17: find_null_assignments returns, in pre-order, one source event for
\* every assignment at any depth of the function whose left side is a simple
\* identifier and whose right side is None, and none for any other
\* assignment (member or indexed target, other right side).
C17_SourcesAreSimpleNullAssignments ==
    pc # "sources" =>
        null_assigns =
            [k \in DOMAIN SimpleNullAssignments |->
                Event(SimpleNullAssignments[k].children[1].text,
                      SimpleNullAssignments[k].children[1].line)]

\* if c: x = None (nested, line 3), then x.a = None and x[i] = None: the
\* nested assignment is the one source event
C17_Witness ==
    /\ pc = "sinks"
    /\ null_assigns = <<Event("x", 3)>>
    /\ \E k \in DOMAIN Preorder(func.node) :
          /\ Preorder(func.node)[k].type = "assignment"
          /\ Preorder(func.node)[k].children[1].type = "attribute"
    /\ \E k \in DOMAIN Preorder(func.node) :
          /\ Preorder(func.node)[k].type = "assignment"
          /\ Preorder(func.node)[k].children[1].type = "subscript"

\* the findings discovered so far: those of the files done, of the functions
\* done of the file under analysis, and of the function under analysis
Discovered == main_bugs \o file_bugs \o bugs

IsPrefix(s, t) == Len(s) <= Len(t) /\ SubSeq(t, 1, Len(s)) = s

\* the candidates of one function unit, in matching order
CandidateKeys(unit) ==
    LET pairs == Match(find_null_assignments(unit.node),
                       find_attribute_access(unit.node))
    IN  [k \in DOMAIN pairs |->
            <<unit.name, pairs[k][1].variable, pairs[k][1].line,
              pairs[k][2].line>>]

RECURSIVE UnitKeys(_, _)
UnitKeys(units, k) ==
    IF k > Len(units) THEN <<>>
    ELSE CandidateKeys(units[k]) \o UnitKeys(units, k + 1)

\* the candidates of each file: function by function in pre-order,
\* candidate by candidate
SourceKeys ==
    [source \in FileSources |->
        IF source.readable
        THEN UnitKeys(extract_functions(parse_file(source)), 1)
        ELSE <<>>]

\* the keys of every candidate of the run, file by file
RECURSIVE RunKeys(_)
RunKeys(k) ==
    IF k > Len(files) THEN <<>>
    ELSE [i \in DOMAIN SourceKeys[files[k]] |->
             <<PathNames[k]>> \o SourceKeys[files[k]][i]]
         \o RunKeys(k + 1)

\* s is t with some elements left out
RECURSIVE IsSubsequence(_, _, _, _)
IsSubsequence(s, i, t, j) ==
    IF i > Len(s) THEN TRUE
    ELSE IF j > Len(t) THEN FALSE
    ELSE IF s[i] = t[j] THEN IsSubsequence(s, i + 1, t, j + 1)
    ELSE IsSubsequence(s, i, t, j + 1)

\* C18: the findings are in discovery order (files in the order analysed,
\* functions in pre-order, candidates in matching order); no step removes,
\* replaces or reorders a finding already discovered, and the ranked view
\* leaves the list as it is.
C18_DiscoveryOrderAppendOnly ==
    /\ [](IsSubsequence([k \in DOMAIN Discovered |-> FindingKey(Discovered[k])],
                        1, RunKeys(1), 1))
    /\ [][/\ IsPrefix(Discovered, Discovered')
          /\ pc = "report" => Discovered' = Discovered]_vars

\* a directory of two files: two findings of f and one of h in a.py, one in
\* b.py, in this order, and a ranked view in another order
C18_Witness ==
    /\ pc = "exit_ok"
    /\ Len(main_bugs) = 4
    /\ <<main_bugs[1].file, main_bugs[1].function, main_bugs[1].use_line>>
          = <<"a.py", "f", 3>>
    /\ <<main_bugs[2].file, main_bugs[2].function, main_bugs[2].use_line>>
          = <<"a.py", "f", 4>>
    /\ <<main_bugs[3].file, main_bugs[3].function>> = <<"a.py", "h">>
    /\ main_bugs[4].file = "b.py"
    /\ sorted_bugs # main_bugs

\* _analyze_function has run to its return: it returned early for want of
\* sources, sinks or candidates, or every candidate has been verified
FunctionComplete ==
    /\ pc = "return"
    /\ \/ null_assigns = <<>>
       \/ sink_run /\ attr_accesses = <<>>
       \/ sink_run /\ Match(null_assigns, attr_accesses) = <<>>
       \/ matches # <<>> /\ idx = Len(matches) + 1 /\ calls = Len(matches)

\* C19: processing is sequential.  The steps of one function follow each
\* other (sources, sinks, matching, one answered request per candidate in
\* turn); the next function is taken up only when the function under
\* analysis is complete, the next file only when the last function of the
\* file is complete (or the file gave no function), and a step sends at most
\* one request, which is answered within the step.
C19_Sequential ==
    [][/\ (sink_run' /\ ~sink_run) => (pc = "sinks" /\ null_assigns # <<>>)
       /\ (matches' # matches /\ matches' # <<>>) => (pc = "match" /\ sink_run)
       /\ (calls' # calls /\ calls' # 0) =>
             /\ pc = "verify" /\ matches # <<>> /\ idx = calls + 1
             /\ calls' = calls + 1
             /\ llm_result' = analyze_npd_path(reply')
       /\ (func' # func /\ func # NoFunc) =>
             /\ FunctionComplete
             /\ func' # NoFunc => (file_idx' = file_idx /\ fn_idx' = fn_idx + 1)
       /\ (file_idx' # file_idx /\ file_idx # 0) =>
             /\ file_idx' = file_idx + 1
             /\ \/ pc = "file"
                \/ FunctionComplete /\ fn_idx = Len(functions)
      ]_vars

\* the one function of the second file is being verified, after the two
\* candidates of f and the one of h in the first file have been verified
C19_Witness ==
    /\ file_idx = 2 /\ fn_idx = 1
    /\ pc = "verify" /\ calls = 0
    /\ Len(main_bugs) = 3
    /\ main_bugs[3].function = "h"

====
